---- MODULE Spec2Model ----
(***************************************************************************)
(* State-machine model of the SnakeGame React component                    *)
(* (src/src/components/GameBoard.tsx).                                     *)
(*                                                                         *)
(* The component's useState cells are the variables.  Every action is one  *)
(* event handler (key press, button click, interval callback) run to       *)
(* completion together with the commit it causes: the batched state        *)
(* updates, the re-run of the game-loop effect when one of its             *)
(* dependencies changed (which re-creates the moveSnake closure), and the  *)
(* high-score effect.  A model state is therefore a settled state of the   *)
(* component between two events.                                           *)
(*                                                                         *)
(* Closures: handleKeyDown reads direction and gameOver, both of which are *)
(* dependencies of its effect, so it always reads the committed values.    *)
(* moveSnake reads direction, food and score (all dependencies of the game *)
(* loop effect, hence current) and, through isPositionOccupied, the snake  *)
(* of the render in which the effect last ran.  snake is NOT a dependency, *)
(* so that value is kept in loopSnake and refreshed only when the effect   *)
(* re-runs.                                                                *)
(*                                                                         *)
(* The board is scaled: GRID_SIZE is 20 in the source and a small number   *)
(* here; the start cell (10,10) and the first food (5,5) scale with it as  *)
(* GRID_SIZE/2 and GRID_SIZE/4.                                            *)
(*                                                                         *)
(* History variables, read by the properties only: lastOp is the kind of   *)
(* the last handler that ran ("mount", "arrow", "toggle", "restart",       *)
(* "tick", "hang"); lastKey is the key that handler was given ("NONE" if   *)
(* it was not the key handler); tickDir is the direction the last tick of  *)
(* the current game moved in ("NONE" before the first tick).  hung records *)
(* that the                                                                *)
(* interval callback is stuck in its food-placement loop, which blocks     *)
(* every other handler of the page.                                        *)
(***************************************************************************)
EXTENDS Integers, Sequences, FiniteSets

VARIABLES snake, food, direction, gameOver, isPaused, score, highScore, speed,
          loopSnake, hung, lastOp, lastKey, tickDir

vars == <<snake, food, direction, gameOver, isPaused, score, highScore, speed,
          loopSnake, hung, lastOp, lastKey, tickDir>>

\* Scaled board side (source: 20).
GRID_SIZE == 3

INITIAL_SPEED == 150

MIN_SPEED == 50

SPEED_STEP == 10

FOOD_SCORE == 10

RAMP_EVERY == 50

Coords == 0 .. (GRID_SIZE - 1)

Position == [x : Coords, y : Coords]

Direction == {"UP", "DOWN", "LEFT", "RIGHT"}

Keys == {"ArrowUp", "ArrowDown", "ArrowLeft", "ArrowRight", " "}

Pos(px, py) == [x |-> px, y |-> py]

\* useState<Position[]>([{ x: 10, y: 10 }]), scaled
InitHead == Pos(GRID_SIZE \div 2, GRID_SIZE \div 2)

\* useState<Position>({ x: 5, y: 5 }), scaled
InitFood == Pos(GRID_SIZE \div 4, GRID_SIZE \div 4)

Max(a, b) == IF a >= b THEN a ELSE b

Cells(s) == {s[i] : i \in 1 .. Len(s)}

\* Variant: each guard compares with the requested direction itself.
OppositeTypo(d) == d

Opposite(d) ==
    CASE d = "UP" -> "DOWN"
      [] d = "DOWN" -> "UP"
      [] d = "LEFT" -> "RIGHT"
      [] d = "RIGHT" -> "LEFT"

\* Math.floor(Math.random() * GRID_SIZE) on both axes: any cell of the grid.
generateFood == Position

\* snake.some(...) over the snake captured by the game-loop closure.
isPositionOccupied(pos) == \E i \in 1 .. Len(loopSnake) : loopSnake[i] = pos

\* The cells the rejection loop of moveSnake can end on.
PlaceFood == {c \in generateFood : ~isPositionOccupied(c)}

\* switch (direction) in moveSnake
MoveHead(h, d) ==
    CASE d = "UP" -> Pos(h.x, h.y - 1)
      [] d = "DOWN" -> Pos(h.x, h.y + 1)
      [] d = "LEFT" -> Pos(h.x - 1, h.y)
      [] d = "RIGHT" -> Pos(h.x + 1, h.y)

\* Variant: >= written as > in the upper-bound tests.
WallCollisionOffByOne(h) == h.x < 0 \/ h.x > GRID_SIZE \/ h.y < 0 \/ h.y > GRID_SIZE

\* Variant: the lower-bound tests left out.
WallCollisionNoLow(h) == h.x >= GRID_SIZE \/ h.y >= GRID_SIZE

WallCollision(h) == h.x < 0 \/ h.x >= GRID_SIZE \/ h.y < 0 \/ h.y >= GRID_SIZE

\* Variant: the tail segment, which a plain move vacates, is not tested.
SelfCollisionSkipTail(prevSnake, h) == \E i \in 1 .. (Len(prevSnake) - 1) : prevSnake[i] = h

\* Variant: the self-collision test left out.
NoSelfCollision(prevSnake, h) == FALSE

SelfCollision(prevSnake, h) == \E i \in 1 .. Len(prevSnake) : prevSnake[i] = h

\* Variant: the tail is kept on a plain move.
NoPop(s) == s

\* newSnake.pop()
Pop(s) == SubSeq(s, 1, Len(s) - 1)

\* if (score > 0 && score % 50 === 0), on the score the closure captured
SpeedRampDue(sc) == sc > 0 /\ sc % RAMP_EVERY = 0

\* Variant: Math.min in place of Math.max.
RampSpeedMin(prev) == IF prev - SPEED_STEP <= MIN_SPEED THEN prev - SPEED_STEP ELSE MIN_SPEED

\* setSpeed(prev => Math.max(prev - 10, 50))
RampSpeed(prev) == Max(prev - SPEED_STEP, MIN_SPEED)

\* Variant: the effect never stores the score.
NoHighScoreUpdate(go, sc, hs) == hs

\* Variant: the effect stores the score of every finished game.
HighScoreOverwrite(go, sc, hs) == IF go THEN sc ELSE hs

\* useEffect(..., [gameOver, score, highScore]): the high score after the
\* effect has settled, for a commit with the given gameOver and score.
HighScoreEffect(go, sc, hs) == IF go /\ sc > hs THEN sc ELSE hs

\* Variant: the early return tests gameOver only.
TimerActiveIgnoresPause == ~gameOver

\* The game-loop effect installs an interval only if it passes its early return.
TimerActive == ~isPaused /\ ~gameOver

\* One commit: the new values of the useState cells, the effects after it.
\* depsChanged: one of [direction, food, isPaused, gameOver, speed, score]
\* differs (Object.is) from the previous render, so the game-loop effect
\* re-runs and its closure captures the snake of this render.
Commit(s, f, d, go, p, sc, sp, depsChanged) ==
    /\ snake' = s
    /\ food' = f
    /\ direction' = d
    /\ gameOver' = go
    /\ isPaused' = p
    /\ score' = sc
    /\ speed' = sp
    /\ highScore' = HighScoreEffect(go, sc, highScore)
    /\ loopSnake' = IF depsChanged THEN s ELSE loopSnake

Init ==
    /\ snake = <<InitHead>>
    /\ food = InitFood
    /\ direction = "RIGHT"
    /\ gameOver = FALSE
    /\ isPaused = TRUE
    /\ score = 0
    /\ highScore = 0
    /\ speed = INITIAL_SPEED
    /\ loopSnake = <<InitHead>>
    /\ hung = FALSE
    /\ lastOp = "mount"
    /\ lastKey = "NONE"
    /\ tickDir = "NONE"

\* The direction an arrow key asks for.
KeyDirection(k) ==
    CASE k = "ArrowUp" -> "UP"
      [] k = "ArrowDown" -> "DOWN"
      [] k = "ArrowLeft" -> "LEFT"
      [] k = "ArrowRight" -> "RIGHT"

\* Variant: handleKeyDown without its early return on gameOver.
handleKeyDownNoOverCheck(k) ==
    /\ ~hung
    /\ lastOp' = IF k = " " THEN "toggle" ELSE "arrow"
    /\ lastKey' = k
    /\ UNCHANGED <<hung, tickDir>>
    /\ IF k = " "
       THEN Commit(snake, food, direction, gameOver, ~isPaused, score, speed, TRUE)
       ELSE IF direction # Opposite(KeyDirection(k))
            THEN Commit(snake, food, KeyDirection(k), gameOver, isPaused,
                        score, speed, direction # KeyDirection(k))
            ELSE UNCHANGED <<snake, food, direction, gameOver, isPaused,
                             score, highScore, speed, loopSnake>>

\* handleKeyDown
handleKeyDown(k) ==
    /\ ~hung
    /\ lastOp' = IF k = " " THEN "toggle" ELSE "arrow"
    /\ lastKey' = k
    /\ UNCHANGED <<hung, tickDir>>
    /\ IF gameOver
       THEN UNCHANGED <<snake, food, direction, gameOver, isPaused, score,
                        highScore, speed, loopSnake>>
       ELSE IF k = " "
            THEN Commit(snake, food, direction, gameOver, ~isPaused, score,
                        speed, TRUE)
            ELSE IF direction # Opposite(KeyDirection(k))
                 THEN Commit(snake, food, KeyDirection(k), gameOver, isPaused,
                             score, speed, direction # KeyDirection(k))
                 ELSE UNCHANGED <<snake, food, direction, gameOver, isPaused,
                                  score, highScore, speed, loopSnake>>

KeyDown == \E k \in Keys : handleKeyDown(k)

\* Play/Pause button: onClick={() => setIsPaused(prev => !prev)}
ClickPause ==
    /\ ~hung
    /\ lastOp' = "toggle"
    /\ lastKey' = "NONE"
    /\ UNCHANGED <<hung, tickDir>>
    /\ Commit(snake, food, direction, gameOver, ~isPaused, score, speed, TRUE)

\* Variant: initGame without its setScore(0).
initGameKeepsScore ==
    /\ ~hung
    /\ lastOp' = "restart"
    /\ lastKey' = "NONE"
    /\ tickDir' = "NONE"
    /\ UNCHANGED hung
    /\ \E f \in generateFood :
          Commit(<<InitHead>>, f, "RIGHT", FALSE, FALSE, score, INITIAL_SPEED, TRUE)

\* Variant: initGame without its setIsPaused(false).
initGameKeepsPause ==
    /\ ~hung
    /\ lastOp' = "restart"
    /\ lastKey' = "NONE"
    /\ tickDir' = "NONE"
    /\ UNCHANGED hung
    /\ \E f \in generateFood :
          Commit(<<InitHead>>, f, "RIGHT", FALSE, isPaused, 0, INITIAL_SPEED, TRUE)

\* initGame, from the Restart button or the Play Again button
initGame ==
    /\ ~hung
    /\ lastOp' = "restart"
    /\ lastKey' = "NONE"
    /\ tickDir' = "NONE"
    /\ UNCHANGED hung
    /\ \E f \in generateFood :
          Commit(<<InitHead>>, f, "RIGHT", FALSE, FALSE, 0, INITIAL_SPEED, TRUE)

\* moveSnake, the interval callback
moveSnake ==
    /\ ~hung
    /\ TimerActive
    /\ LET head == MoveHead(snake[1], direction)
           newSnake == <<head>> \o snake
       IN  IF WallCollision(head) \/ SelfCollision(snake, head)
           THEN /\ Commit(snake, food, direction, TRUE, isPaused, score, speed, TRUE)
                /\ lastOp' = "tick"
                /\ lastKey' = "NONE"
                /\ tickDir' = direction
                /\ UNCHANGED hung
           ELSE IF head = food
                THEN IF PlaceFood = {}
                     THEN /\ hung' = TRUE
                          /\ lastOp' = "hang"
                          /\ lastKey' = "NONE"
                          /\ UNCHANGED <<snake, food, direction, gameOver, isPaused,
                                         score, highScore, speed, loopSnake,
                                         tickDir>>
                     ELSE /\ \E newFood \in PlaceFood :
                                Commit(newSnake, newFood, direction, gameOver,
                                       isPaused, score + FOOD_SCORE,
                                       IF SpeedRampDue(score)
                                       THEN RampSpeed(speed) ELSE speed,
                                       TRUE)
                          /\ lastOp' = "tick"
                          /\ lastKey' = "NONE"
                          /\ tickDir' = direction
                          /\ UNCHANGED hung
                ELSE /\ Commit(Pop(newSnake), food, direction, gameOver, isPaused,
                               score, speed, FALSE)
                     /\ lastOp' = "tick"
                     /\ lastKey' = "NONE"
                     /\ tickDir' = direction
                     /\ UNCHANGED hung

Next == KeyDown \/ ClickPause \/ initGame \/ moveSnake

Spec == Init /\ [][Next]_vars

----------------------------------------------------------------------------
(* Properties *)

\* A step that is a completed tick / a restart / a pause toggle.
TickStep == lastOp' = "tick"

RestartStep == lastOp' = "restart"

ToggleStep == lastOp' = "toggle"

\* The tick about to run eats: its new head is the food and hits nothing.
TickEats ==
    LET head == MoveHead(snake[1], direction)
    IN  head = food /\ ~WallCollision(head) /\ ~SelfCollision(snake, head)

NoDuplicates(s) == \A i, j \in 1 .. Len(s) : i # j => s[i] # s[j]

\* C1: whenever a tick eats the food, the food cell placed by that tick is not
\* a cell of the snake as it stands after the tick.
C1_EatenFoodOffSnake ==
    [][(TickStep /\ Len(snake') = Len(snake) + 1) => food' \notin Cells(snake')]_vars

\* C2: after restart, from any state, the food placed by restart is not on the
\* re-initialised snake.
C2_RestartFoodOffSnake == lastOp = "restart" => food \notin Cells(snake)

\* C3: whatever direction keys arrive between two consecutive ticks of a game,
\* the later tick does not move in the direction opposite to the earlier one,
\* so a snake of length >= 2 is never driven straight back into its neck.
\* Stated for the snakes that have a neck.
C3_NoReversalBetweenTicks ==
    [][(TickStep /\ tickDir # "NONE" /\ Len(snake) >= 2) =>
          /\ tickDir' # Opposite(tickDir)
          /\ MoveHead(snake[1], tickDir') # snake[2]]_vars

\* C4: a pause toggle (spacebar or Play/Pause button) leaves isPaused as it
\* was when the game is over.
C4_ToggleNoOpWhenOver ==
    [][(gameOver /\ ToggleStep) => isPaused' = isPaused]_vars

\* C5: restart, from any state, yields the one-cell snake at the start cell,
\* direction RIGHT, score 0, the initial speed, not paused, not over, and
\* leaves highScore as it was.
C5_RestartResets ==
    [][RestartStep =>
          /\ snake' = <<InitHead>>
          /\ direction' = "RIGHT"
          /\ score' = 0
          /\ speed' = INITIAL_SPEED
          /\ isPaused' = FALSE
          /\ gameOver' = FALSE
          /\ highScore' = highScore]_vars

C5_Witness == lastOp = "restart" /\ highScore > 0 /\ score = 0 /\ Len(snake) = 1

\* C6: a tick lengthens the snake by one exactly when its new head is the food
\* and hits neither wall nor snake, and leaves the length alone otherwise.
C6_TickLength ==
    [][TickStep =>
          Len(snake') = Len(snake) + (IF TickEats THEN 1 ELSE 0)]_vars

C6_Witness == lastOp = "tick" /\ Len(snake) >= 3 /\ ~gameOver

\* C7: the snake always has at least one segment and no two segments share a
\* cell.
C7_SnakeDistinct == Len(snake) >= 1 /\ NoDuplicates(snake)

\* A game ended by the snake running into itself.
C7_Witness ==
    /\ gameOver
    /\ lastOp = "tick"
    /\ Len(snake) >= 5
    /\ SelfCollision(snake, MoveHead(snake[1], direction))

C9_HighScoreOnGameOver ==
    /\ [](gameOver => highScore >= score)
    /\ [][(~gameOver /\ gameOver' /\ score' > highScore) => highScore' = score']_vars

C9_Witness == gameOver /\ score > 0 /\ highScore = score

\* C10: highScore never decreases.
C10_HighScoreMonotone == [][highScore' >= highScore]_vars

\* A later game that ended below the high score of an earlier one.
C10_Witness == gameOver /\ score < highScore

\* A step that is a run of the key handler on an arrow key.
ArrowStep == lastOp' = "arrow"

\* Direction b points straight back along direction a.
Reverses(a, b) ==
    <<a, b>> \in {<<"UP", "DOWN">>, <<"DOWN", "UP">>,
                  <<"LEFT", "RIGHT">>, <<"RIGHT", "LEFT">>}

\* The cell lies outside [0, GRID_SIZE) on some axis.
OutsideGrid(c) == c.x \notin 0 .. (GRID_SIZE - 1) \/ c.y \notin 0 .. (GRID_SIZE - 1)

\* The head the tick about to run computes.
TickHead == MoveHead(snake[1], direction)

\* A tick step that ate (only an eating tick lengthens the snake).
EatStep == TickStep /\ Len(snake') = Len(snake) + 1

\* C11: once the game is over it stays over, and snake, food, score, speed
\* and direction stay as they are, until restart.
C11_GameOverFrozen ==
    [][(gameOver /\ ~RestartStep) =>
          /\ gameOver'
          /\ UNCHANGED <<snake, food, score, speed, direction>>]_vars

\* An arrow key was handled after a game with a score had ended.
C11_Witness == gameOver /\ lastOp = "arrow" /\ score > 0

\* C12: a direction request for the exact opposite of the current direction
\* leaves the direction as it was.
C12_OppositeRequestIgnored ==
    [][(ArrowStep /\ Reverses(direction, KeyDirection(lastKey'))) =>
          direction' = direction]_vars

\* The last request was for the reverse of the direction still in force.
C12_Witness ==
    /\ lastOp = "arrow"
    /\ ~gameOver
    /\ Reverses(direction, KeyDirection(lastKey))

\* C13: on an eating tick speed drops by 10 (floored at 50) exactly when the
\* score after the tick's +10 is a positive multiple of 50, and is unchanged
\* on every other eating tick.
C13_RampOnReachingMultiple ==
    [][EatStep =>
          speed' = IF score' > 0 /\ score' % 50 = 0
                   THEN (IF speed - 10 >= 50 THEN speed - 10 ELSE 50)
                   ELSE speed]_vars

\* C14: a tick whose new head is outside the grid sets gameOver and leaves
\* snake, food, score, speed and direction unchanged.
C14_WallCollision ==
    [][(TickStep /\ OutsideGrid(TickHead)) =>
          /\ gameOver'
          /\ UNCHANGED <<snake, food, score, speed, direction>>]_vars

C14_Witness == gameOver /\ lastOp = "tick" /\ OutsideGrid(TickHead) /\ score > 0

\* C15: a tick whose new head is a cell of the snake as it was before the
\* tick, the tail cell included, sets gameOver and leaves snake, food, score
\* and speed unchanged.
C15_SelfCollision ==
    [][(TickStep /\ TickHead \in Cells(snake)) =>
          /\ gameOver'
          /\ UNCHANGED <<snake, food, score, speed>>]_vars

\* A game ended by the head stepping onto the tail cell.
C15_Witness ==
    /\ gameOver
    /\ lastOp = "tick"
    /\ Len(snake) >= 4
    /\ TickHead = snake[Len(snake)]

\* C16: while the game is paused or over no tick fires, and snake, food,
\* score and speed change only through restart.
C16_TickOnlyWhenPlaying ==
    [][(isPaused \/ gameOver) =>
          /\ ~TickStep
          /\ RestartStep \/ UNCHANGED <<snake, food, score, speed>>]_vars

\* A key was handled while a game in progress was paused.
C16_Witness == isPaused /\ ~gameOver /\ lastOp = "arrow" /\ score > 0

\* C17: an eating tick that would leave the snake on every cell of the grid
\* never completes (its food-placement loop does not terminate).
C17_FullBoardHangs ==
    [][~(EatStep /\ Cells(snake') = Position)]_vars

\* C18: a tick never computes from a superseded value; in particular the
\* snake its food-placement test reads is the current snake.
C18_TickReadsLatest ==
    [][EatStep => loopSnake = snake]_vars

\* C19: every snake segment and the food lie inside the grid.
C19_InGrid ==
    /\ \A i \in 1 .. Len(snake) : ~OutsideGrid(snake[i])
    /\ ~OutsideGrid(food)

\* A game ended at a wall with a snake that has grown.
C19_Witness == gameOver /\ lastOp = "tick" /\ OutsideGrid(TickHead) /\ Len(snake) >= 3

\* C20: score = 10 * (snake length - 1) in every reachable state.
C20_ScoreTracksLength == score = 10 * (Len(snake) - 1)

C20_Witness == lastOp = "tick" /\ Len(snake) = 4 /\ score = 30

====
